---- MODULE Spec2Model ----
(***************************************************************************)
(* Room dimension visualizer: the dimension inference engine (the computed *)
(* property roomDimensions of the two RoomVisualizer variants), the        *)
(* selection cursor, and the loader of HomeView.                           *)
(*                                                                         *)
(* Numbers.  Corner coordinates are integers.  Arithmetic is exact:        *)
(*   - a coordinate of a Dimension is the rational  x / den  (den > 0 is   *)
(*     shared by the four coordinates of one Dimension);                   *)
(*   - a length v (Math.hypot) is kept as its square, the rational         *)
(*     value.n / value.d, which orders lengths exactly as v does;          *)
(*   - an angle is kept as an integer direction vector proportional to     *)
(*     (cos, sin); projections onto it order corners as x*cos + y*sin      *)
(*     does;                                                               *)
(*   - NaN is explicit: a Dimension with nan = TRUE has x2, y2 and value   *)
(*     NaN, a value with d = 0 is NaN, and every comparison with NaN is    *)
(*     FALSE as in IEEE 754.                                               *)
(* Rounding of the IEEE doubles (for instance Math.cos(Math.PI/2) being    *)
(* 6.1e-17 and not 0) is not modelled: corners whose exact projections     *)
(* are equal tie here, and the earlier corner wins as in the reduce; a     *)
(* distance of exactly 0.5 is within the tolerance here, where the doubles *)
(* may come out one ulp above it.                                          *)
(***************************************************************************)
EXTENDS Integers, Sequences, FiniteSets, TLC

VARIABLES
    variant,                 \* which RoomVisualizer is built: "precision" or "simple"
    roomData,                \* HomeView roomData / props.roomData (NoRoom or a RoomData)
    error,                   \* HomeView error (NULL or a message)
    isLoading,               \* HomeView isLoading
    currentRoomType,         \* HomeView currentRoomType ("" or a room type)
    pending,                 \* the type of the loadRoomData call awaiting fetch, or NULL
    currentDimensionOption,  \* the selection cursor of the mounted RoomVisualizer
    drawFault,               \* the last drawRoom threw a TypeError
    pc,                      \* position inside one evaluation of roomDimensions
    dimensions,              \* local `dimensions` of roomDimensions
    uniqueDimensions,        \* local `uniqueDimensions` of roomDimensions
    result,                  \* the value roomDimensions returned
    nanCompared,             \* isPointNearWall compared a NaN distance in this evaluation
    lastHandler              \* the handler whose run produced this state ("" after construction)

vars == <<variant, roomData, error, isLoading, currentRoomType, pending,
          currentDimensionOption, drawFault, pc, dimensions, uniqueDimensions,
          result, nanCompared, lastHandler>>

NULL == "null"

\* roomData.value = null
NoRoom == [null |-> TRUE]

\* coordinates.value = null
NoCoordinates == [null |-> TRUE]

Abs(n) == IF n < 0 THEN -n ELSE n

SetMin(S) == CHOOSE i \in S : \A j \in S : i <= j

(***************************************************************************)
(* Tolerances of the source, as exact rationals.                           *)
(***************************************************************************)
\* 0.01 = 1 / AlignEpsDen: isWallAlignedWithAxis, isHorizontal
AlignEpsDen == 100
\* tolerance = 0.5 = 1 / NearTolDen of isPointNearWall
NearTolDen == 2
\* tolerance = 0.01 rad of isParallelToWall: two directions are closer than
\* 0.01 rad modulo pi iff |cross| / |dot| < tan(0.01) = 0.0100003..., which
\* for the integer vectors of the model is |cross| * ParallelTolDen <= |dot|
ParallelTolDen == 100
\* toFixed(1) in the precision variant, toFixed(2) in the simple variant
PrecisionDigits == 1
SimpleDigits == 2

(***************************************************************************)
(* RoomData.  Ids are numbers; wallStarts / wallEnds are kept as the sets  *)
(* of wall ids they list (the source only asks `some(w => w.id === id)`).  *)
(***************************************************************************)
MkCorner(i, p, ws) ==
    [id |-> i, x |-> p[1], y |-> p[2],
     wallStarts |-> {k \in 1..Len(ws) : ws[k][1] = i},
     wallEnds   |-> {k \in 1..Len(ws) : ws[k][2] = i}]

\* pts: corner positions in order; ws: for wall k, <<start corner, end corner>>
\* as indices into pts, 0 where no corner lists the wall.
MkRoom(pts, ws) ==
    [walls   |-> [k \in 1..Len(ws) |-> [id |-> k]],
     corners |-> [i \in 1..Len(pts) |-> MkCorner(i, pts[i], ws)]]

\* props.roomData.corners.find(c => c.wallStarts.some(w => w.id === wall.id))
startCornerOf(rd, wall) ==
    LET S == {i \in 1..Len(rd.corners) : wall.id \in rd.corners[i].wallStarts}
    IN  IF S = {} THEN NULL ELSE rd.corners[SetMin(S)]

\* props.roomData.corners.find(c => c.wallEnds.some(w => w.id === wall.id))
endCornerOf(rd, wall) ==
    LET S == {i \in 1..Len(rd.corners) : wall.id \in rd.corners[i].wallEnds}
    IN  IF S = {} THEN NULL ELSE rd.corners[SetMin(S)]

\* the `if (!startCorner || !endCorner) continue` guard
isResolved(rd, wall) ==
    /\ \E i \in 1..Len(rd.corners) : wall.id \in rd.corners[i].wallStarts
    /\ \E i \in 1..Len(rd.corners) : wall.id \in rd.corners[i].wallEnds

\* the walls the loops do not skip, in the order of props.roomData.walls
resolvedWalls(rd) == SelectSeq(rd.walls, LAMBDA w : isResolved(rd, w))

\* `if (!props.roomData?.corners?.length) return null`, else the bounding box
coordinates(rd) ==
    IF Len(rd.corners) = 0 THEN NoCoordinates
    ELSE LET I == 1..Len(rd.corners) IN
         [minX |-> rd.corners[CHOOSE i \in I : \A j \in I : rd.corners[i].x <= rd.corners[j].x].x,
          maxX |-> rd.corners[CHOOSE i \in I : \A j \in I : rd.corners[i].x >= rd.corners[j].x].x,
          minY |-> rd.corners[CHOOSE i \in I : \A j \in I : rd.corners[i].y <= rd.corners[j].y].y,
          maxY |-> rd.corners[CHOOSE i \in I : \A j \in I : rd.corners[i].y >= rd.corners[j].y].y]

(***************************************************************************)
(* Lengths and angles.                                                     *)
(***************************************************************************)
\* Math.hypot(dx, dy), as its square
hypot(dx, dy) == [n |-> dx * dx + dy * dy, d |-> 1]

NaNValue == [n |-> 0, d |-> 0]

\* sign of a - b for two values; 2 stands for NaN
valueDiff(a, b) ==
    IF a.d = 0 \/ b.d = 0 THEN 2
    ELSE LET l == a.n * b.d
             r == b.n * a.d
         IN  IF l > r THEN 1 ELSE IF l < r THEN -1 ELSE 0

\* Math.atan2(dy, dx) as a direction; atan2(0, 0) is 0, the direction (1, 0)
atan2(dy, dx) == IF dx = 0 /\ dy = 0 THEN <<1, 0>> ELSE <<dx, dy>>

\* angle + Math.PI / 2
perpAngle(angle) == <<-angle[2], angle[1]>>

\* const angles = [0, Math.PI/2, Math.PI/4, Math.PI*3/4]
angles == << <<1, 0>>, <<0, 1>>, <<1, 1>>, <<-1, 1>> >>

\* finding the extreme points of the room in a given direction: both reduces
\* start from projections[0] and replace only on a strict comparison
findExtremePoints(rd, angle) ==
    IF Len(rd.corners) = 0 THEN NULL
    ELSE LET cs == rd.corners
             I == 1..Len(cs)
             proj(i) == cs[i].x * angle[1] + cs[i].y * angle[2]
             mn == CHOOSE i \in I : /\ \A j \in I : proj(i) <= proj(j)
                                    /\ \A j \in I : j < i => proj(j) > proj(i)
             mx == CHOOSE i \in I : /\ \A j \in I : proj(i) >= proj(j)
                                    /\ \A j \in I : j < i => proj(j) < proj(i)
         IN  [min |-> cs[mn], max |-> cs[mx]]

\* the Dimension literal built from two corners
cornerDimension(a, b) ==
    [x1 |-> a.x, y1 |-> a.y, x2 |-> b.x, y2 |-> b.y, den |-> 1, nan |-> FALSE,
     value |-> hypot(b.x - a.x, b.y - a.y)]

\* one candidate of the extreme-points method for a direction (it is only
\* built when corners is not empty, so neither `continue` is taken)
extremeCandidate(rd, angle) ==
    LET lengthExtremes == findExtremePoints(rd, angle)
        widthExtremes == findExtremePoints(rd, perpAngle(angle))
    IN  [length |-> cornerDimension(lengthExtremes.min, lengthExtremes.max),
         width  |-> cornerDimension(widthExtremes.min, widthExtremes.max)]

(***************************************************************************)
(* Array.prototype.sort is stable; a comparator result > 0 puts b before   *)
(* a, and a result of 0 or NaN keeps the order of a and b.                 *)
(***************************************************************************)
\* (a, b) => b.length - a.length   (aligned walls; never NaN)
byLengthDesc(a, b) == valueDiff(b.length, a.length)

\* defective comparator: ascending, (a, b) => a.length.value - b.length.value
byValuesAsc(a, b) ==
    LET l == valueDiff(a.length.value, b.length.value)
    IN  IF l = 2 THEN 0 ELSE l

\* (a, b) => b.length.value - a.length.value || b.width.value - a.width.value
\* (0 and NaN are falsy, so || goes on to the widths; sort reads NaN as 0)
byValuesDesc(a, b) ==
    LET l == valueDiff(b.length.value, a.length.value)
        w == valueDiff(b.width.value, a.width.value)
    IN  IF l = 1 \/ l = -1 THEN l
        ELSE IF w = 2 THEN 0 ELSE w

comparator(kind, a, b) ==
    IF kind = "walls" THEN byLengthDesc(a, b) ELSE byValuesDesc(a, b)

RECURSIVE insertSorted(_, _, _)
insertSorted(kind, s, x) ==
    IF s = <<>> THEN <<x>>
    ELSE IF comparator(kind, Head(s), x) > 0 THEN <<x>> \o s
    ELSE <<Head(s)>> \o insertSorted(kind, Tail(s), x)

RECURSIVE sort(_, _)
sort(kind, s) ==
    IF s = <<>> THEN <<>>
    ELSE insertSorted(kind, sort(kind, SubSeq(s, 1, Len(s) - 1)), s[Len(s)])

(***************************************************************************)
(* Aligned walls (precision variant).                                      *)
(***************************************************************************)
\* defective test: dx < 0.01 && dy < 0.01
alignedOnBothAxes(startCorner, endCorner) ==
    LET dx == Abs(endCorner.x - startCorner.x)
        dy == Abs(endCorner.y - startCorner.y)
    IN  dx * AlignEpsDen < 1 /\ dy * AlignEpsDen < 1

\* dx < 0.01 || dy < 0.01
isWallAlignedWithAxis(startCorner, endCorner) ==
    LET dx == Abs(endCorner.x - startCorner.x)
        dy == Abs(endCorner.y - startCorner.y)
    IN  dx * AlignEpsDen < 1 \/ dy * AlignEpsDen < 1

\* the record pushed for one aligned wall
alignedWall(rd, wall) ==
    LET startCorner == startCornerOf(rd, wall)
        endCorner == endCornerOf(rd, wall)
    IN  [id |-> wall.id, startCorner |-> startCorner, endCorner |-> endCorner,
         isHorizontal |-> Abs(endCorner.y - startCorner.y) * AlignEpsDen < 1,
         length |-> hypot(endCorner.x - startCorner.x, endCorner.y - startCorner.y)]

findAlignedWalls(rd) ==
    LET kept == SelectSeq(rd.walls,
                    LAMBDA w : /\ isResolved(rd, w)
                               /\ isWallAlignedWithAxis(startCornerOf(rd, w),
                                                        endCornerOf(rd, w)))
    IN  [k \in 1..Len(kept) |-> alignedWall(rd, kept[k])]

horizontalWalls(rd) ==
    sort("walls", SelectSeq(findAlignedWalls(rd), LAMBDA w : w.isHorizontal))

verticalWalls(rd) ==
    sort("walls", SelectSeq(findAlignedWalls(rd), LAMBDA w : ~w.isHorizontal))

\* the { length, width } pushed for a horizontal and a vertical wall
wallCandidate(hWall, vWall) ==
    [length |-> [x1 |-> hWall.startCorner.x, y1 |-> hWall.startCorner.y,
                 x2 |-> hWall.endCorner.x, y2 |-> hWall.endCorner.y,
                 den |-> 1, nan |-> FALSE, value |-> hWall.length],
     width  |-> [x1 |-> vWall.startCorner.x, y1 |-> vWall.startCorner.y,
                 x2 |-> vWall.endCorner.x, y2 |-> vWall.endCorner.y,
                 den |-> 1, nan |-> FALSE, value |-> vWall.length]]

Min2(a, b) == IF a < b THEN a ELSE b

\* defective loops: the pair (0, 0) is not skipped
allPairs(nh, nv) ==
    LET I == Min2(3, nh)
        J == Min2(3, nv)
    IN  [k \in 1..(I * J) |-> <<((k - 1) \div J) + 1, ((k - 1) % J) + 1>>]

\* the pairs (i, j) of the nested loops, in loop order, (0, 0) skipped
\* (indices are 1-based here)
combinationPairs(nh, nv) ==
    LET I == Min2(3, nh)
        J == Min2(3, nv)
        all == [k \in 1..(I * J) |-> <<((k - 1) \div J) + 1, ((k - 1) % J) + 1>>]
    IN  SelectSeq(all, LAMBDA p : ~(p[1] = 1 /\ p[2] = 1))

\* lines 216-277: the candidates from aligned walls
alignedCandidates(rd) ==
    LET hs == horizontalWalls(rd)
        vs == verticalWalls(rd)
    IN  IF Len(findAlignedWalls(rd)) > 0 /\ Len(hs) > 0 /\ Len(vs) > 0
        THEN LET pairs == combinationPairs(Len(hs), Len(vs))
             IN  <<wallCandidate(hs[1], vs[1])>> \o
                 [k \in 1..Len(pairs) |-> wallCandidate(hs[pairs[k][1]], vs[pairs[k][2]])]
        ELSE <<>>

\* lines 284-317: one candidate per fixed angle
fixedAngleCandidates(rd) ==
    [k \in 1..Len(angles) |-> extremeCandidate(rd, angles[k])]

(***************************************************************************)
(* Triangle special case (precision variant, lines 319-387).               *)
(***************************************************************************)
\* defective pass: never replaces the initial side corners[0]-corners[1]
keepFirstSide(corners, acc, i, j) == acc

\* one pass of the body of the i, j loops: `if (dist > maxDist)`
longestSideStep(corners, acc, i, j) ==
    LET dist == hypot(corners[j].x - corners[i].x, corners[j].y - corners[i].y)
    IN  IF valueDiff(dist, acc.maxDist) = 1
        THEN [maxDist |-> dist, start |-> corners[i], end |-> corners[j]]
        ELSE acc

\* maxDist = 0, longestSide = { start: corners[0], end: corners[1] }, then the
\* pairs (0,1), (0,2), (1,2) in loop order
longestSide(corners) ==
    LET a0 == [maxDist |-> [n |-> 0, d |-> 1], start |-> corners[1], end |-> corners[2]]
        a1 == longestSideStep(corners, a0, 1, 2)
        a2 == longestSideStep(corners, a1, 1, 3)
    IN  longestSideStep(corners, a2, 2, 3)

\* With baseVec = (bx, by), B = bx^2 + by^2 and h = |toThird . (-by, bx)|:
\* baseLength = sqrt(B), height = h / sqrt(B), perpUnit * height =
\* (-by, bx) * h / B, and the midpoint has denominator 2; all four
\* coordinates of width are taken over 2B.  B = 0 makes unitBase 0/0 = NaN.
triangleCandidate(rd) ==
    LET corners == rd.corners
        side == longestSide(corners)
        T == {i \in 1..Len(corners) :
                corners[i].id # side.start.id /\ corners[i].id # side.end.id}
    IN  IF T = {} THEN <<>>
        ELSE LET thirdCorner == corners[SetMin(T)]
                 bx == side.end.x - side.start.x
                 by == side.end.y - side.start.y
                 B  == bx * bx + by * by
                 tx == thirdCorner.x - side.start.x
                 ty == thirdCorner.y - side.start.y
                 h  == Abs(tx * (-by) + ty * bx)
                 mx == side.start.x + side.end.x
                 my == side.start.y + side.end.y
                 length == [x1 |-> side.start.x, y1 |-> side.start.y,
                            x2 |-> side.end.x, y2 |-> side.end.y,
                            den |-> 1, nan |-> FALSE, value |-> [n |-> B, d |-> 1]]
                 width == IF B = 0
                          THEN [x1 |-> mx, y1 |-> my, x2 |-> 0, y2 |-> 0,
                                den |-> 2, nan |-> TRUE, value |-> NaNValue]
                          ELSE [x1 |-> mx * B, y1 |-> my * B,
                                x2 |-> mx * B - 2 * by * h,
                                y2 |-> my * B + 2 * bx * h,
                                den |-> 2 * B, nan |-> FALSE,
                                value |-> [n |-> h * h, d |-> B]]
             IN  << [length |-> length, width |-> width] >>

(***************************************************************************)
(* Candidate generation of the two variants.                               *)
(***************************************************************************)
\* defective generation: the extreme-points method runs unconditionally
generateBoth(rd) ==
    alignedCandidates(rd) \o fixedAngleCandidates(rd) \o
    (IF Len(rd.corners) = 3 THEN triangleCandidate(rd) ELSE <<>>)

\* lines 213-388: `dimensions` before the sort, precision variant
generatePrecision(rd) ==
    LET aligned == alignedCandidates(rd)
    IN  IF Len(aligned) = 0 \/ Len(rd.corners) <= 4
        THEN aligned \o fixedAngleCandidates(rd) \o
             (IF Len(rd.corners) = 3 THEN triangleCandidate(rd) ELSE <<>>)
        ELSE aligned

\* defective simple generation: the `continue` guard is missing and a wall
\* without both corners is measured along the x axis
generateSimpleEveryWall(rd) ==
    [k \in 1..Len(rd.walls) |->
        IF isResolved(rd, rd.walls[k])
        THEN LET startCorner == startCornerOf(rd, rd.walls[k])
                 endCorner == endCornerOf(rd, rd.walls[k])
             IN  extremeCandidate(rd, atan2(endCorner.y - startCorner.y,
                                            endCorner.x - startCorner.x))
        ELSE extremeCandidate(rd, atan2(0, 0))]

\* lines 732-775: `dimensions` before the sort, simple variant
generateSimple(rd) ==
    LET ws == resolvedWalls(rd)
    IN  [k \in 1..Len(ws) |->
            LET startCorner == startCornerOf(rd, ws[k])
                endCorner == endCornerOf(rd, ws[k])
            IN  extremeCandidate(rd, atan2(endCorner.y - startCorner.y,
                                           endCorner.x - startCorner.x))]

generate(v, rd) == IF v = "precision" THEN generatePrecision(rd) ELSE generateSimple(rd)

(***************************************************************************)
(* Normalisation and the dedup key.                                        *)
(***************************************************************************)
\* defective normalisation: the direction is kept
keepDirection(dim) == dim

\* x1 > x2 and x1 === x2 are both false when x2 is NaN
normalizeDimension(dim) ==
    IF ~dim.nan /\ (dim.x1 > dim.x2 \/ (dim.x1 = dim.x2 /\ dim.y1 > dim.y2))
    THEN [dim EXCEPT !.x1 = dim.x2, !.y1 = dim.y2, !.x2 = dim.x1, !.y2 = dim.y1]
    ELSE dim

\* (x / den).toFixed(digits): the sign and the digits of |x / den| rounded
\* half up; a negative number that rounds to zero prints as "-0.0"
toFixed(x, den, digits) ==
    [neg |-> x < 0, n |-> (2 * Abs(x) * (10 ^ digits) + den) \div (2 * den)]

\* NaN.toFixed(digits) = "NaN"
NaNFixed == [neg |-> FALSE, n |-> -1]

digitsOf(v) == IF v = "precision" THEN PrecisionDigits ELSE SimpleDigits

\* the four strings one Dimension contributes to the key
dimensionKey(dim, digits) ==
    << toFixed(dim.x1, dim.den, digits), toFixed(dim.y1, dim.den, digits),
       IF dim.nan THEN NaNFixed ELSE toFixed(dim.x2, dim.den, digits),
       IF dim.nan THEN NaNFixed ELSE toFixed(dim.y2, dim.den, digits) >>

\* key = [...].join('|') of the normalised length and width
keyOf(v, dim) ==
    dimensionKey(normalizeDimension(dim.length), digitsOf(v)) \o
    dimensionKey(normalizeDimension(dim.width), digitsOf(v))

\* the loop over the sorted dimensions with the `seen` set
RECURSIVE dedupFrom(_, _, _, _)
dedupFrom(v, dims, seen, acc) ==
    IF dims = <<>> THEN acc
    ELSE LET dim == Head(dims)
             key == keyOf(v, dim)
         IN  IF key \notin seen
             THEN dedupFrom(v, Tail(dims), seen \cup {key},
                      Append(acc, [length |-> normalizeDimension(dim.length),
                                   width  |-> normalizeDimension(dim.width)]))
             ELSE dedupFrom(v, Tail(dims), seen, acc)

dedup(v, dims) == dedupFrom(v, dims, {}, <<>>)

(***************************************************************************)
(* Adjacency / parallelism filter (precision variant).                     *)
(***************************************************************************)
\* One pass of the loop body of isPointNearWall for the point (x/den, y/den)
\* (NaN when pnan) and a resolved wall: what `distance <= tolerance` sees.
\*   nan: the distance is NaN (wallLength * wallLength = 0 makes t = 0/0,
\*        Math.min and Math.max keep the NaN, and so do nearest and hypot);
\*   le:  the outcome of distance <= tolerance (FALSE for NaN).
\* With t clamped to [0, 1] the nearest point is the start corner, the end
\* corner or the foot of the perpendicular, whose squared distance is
\* cross^2 / wallLength^2.
wallDistance(x, y, den, pnan, startCorner, endCorner) ==
    LET ex == endCorner.x - startCorner.x
        ey == endCorner.y - startCorner.y
        L2 == ex * ex + ey * ey
        rx == x - startCorner.x * den
        ry == y - startCorner.y * den
        qx == x - endCorner.x * den
        qy == y - endCorner.y * den
        dot == rx * ex + ry * ey
        cross == rx * ey - ry * ex
        T2 == NearTolDen * NearTolDen
    IN  IF pnan \/ L2 = 0 THEN [nan |-> TRUE, le |-> FALSE]
        ELSE IF dot <= 0
             THEN [nan |-> FALSE, le |-> T2 * (rx * rx + ry * ry) <= den * den]
        ELSE IF dot >= den * L2
             THEN [nan |-> FALSE, le |-> T2 * (qx * qx + qy * qy) <= den * den]
        ELSE [nan |-> FALSE, le |-> T2 * cross * cross <= den * den * L2]

\* the loop of isPointNearWall over the walls it does not skip, with its
\* early `return true`: near is the returned value, nanCompared tells whether
\* some pass before the return compared a NaN distance
isPointNearWall(rd, x, y, den, pnan) ==
    LET ws == resolvedWalls(rd)
        d(k) == wallDistance(x, y, den, pnan,
                             startCornerOf(rd, ws[k]), endCornerOf(rd, ws[k]))
    IN  [near |-> \E k \in 1..Len(ws) : d(k).le,
         nanCompared |-> \E k \in 1..Len(ws) :
                            d(k).nan /\ \A j \in 1..(k - 1) : ~d(j).le]

\* isParallelToWall(dim.x1, dim.y1, dim.x2, dim.y2): lineAngle and wallAngle
\* are compared modulo pi; a NaN lineAngle fails every comparison
isParallelToWall(rd, dim) ==
    LET ws == resolvedWalls(rd)
        lineAngle == atan2(dim.y2 - dim.y1, dim.x2 - dim.x1)
        wallAngle(k) == atan2(endCornerOf(rd, ws[k]).y - startCornerOf(rd, ws[k]).y,
                              endCornerOf(rd, ws[k]).x - startCornerOf(rd, ws[k]).x)
        cross(k) == lineAngle[1] * wallAngle(k)[2] - lineAngle[2] * wallAngle(k)[1]
        dot(k) == lineAngle[1] * wallAngle(k)[1] + lineAngle[2] * wallAngle(k)[2]
    IN  /\ ~dim.nan
        /\ \E k \in 1..Len(ws) : Abs(cross(k)) * ParallelTolDen <= Abs(dot(k))

\* the four isPointNearWall calls of the filter callback, in call order
endpointChecks(rd, dim) ==
    << isPointNearWall(rd, dim.length.x1, dim.length.y1, dim.length.den, FALSE),
       isPointNearWall(rd, dim.length.x2, dim.length.y2, dim.length.den, dim.length.nan),
       isPointNearWall(rd, dim.width.x1, dim.width.y1, dim.width.den, FALSE),
       isPointNearWall(rd, dim.width.x2, dim.width.y2, dim.width.den, dim.width.nan) >>

\* defective filter callback: the four endpoint tests are missing
filterParallelOnly(rd, dim) ==
    isParallelToWall(rd, dim.length) \/ isParallelToWall(rd, dim.width)

\* the callback of uniqueDimensions.filter (lines 424-440)
filterKeeps(rd, dim) ==
    /\ isParallelToWall(rd, dim.length) \/ isParallelToWall(rd, dim.width)
    /\ \A k \in 1..4 : endpointChecks(rd, dim)[k].near

\* the callback reached an isPointNearWall call that compared a NaN distance
filterComparesNaN(rd, dim) ==
    /\ isParallelToWall(rd, dim.length) \/ isParallelToWall(rd, dim.width)
    /\ \E k \in 1..4 : endpointChecks(rd, dim)[k].nanCompared

filterDimensions(rd, dims) == SelectSeq(dims, LAMBDA dim : filterKeeps(rd, dim))

\* defective roomDimensions: the entries before the selected one are left out
roomDimensionsFromCursor(v, rd) ==
    IF coordinates(rd) = NoCoordinates THEN <<>>
    ELSE LET unique == dedup(v, sort("dimensions", generate(v, rd)))
             kept == IF v = "precision" THEN filterDimensions(rd, unique) ELSE unique
         IN  SubSeq(kept, currentDimensionOption + 1, Len(kept))

\* the computed property roomDimensions of variant v for the snapshot rd
roomDimensions(v, rd) ==
    IF coordinates(rd) = NoCoordinates THEN <<>>
    ELSE LET unique == dedup(v, sort("dimensions", generate(v, rd)))
         IN  IF v = "precision" THEN filterDimensions(rd, unique) ELSE unique

(***************************************************************************)
(* Inputs.                                                                 *)
(***************************************************************************)
Variants == {"precision", "simple"}

\* const roomTypes = ['simple', 'triangle', 't_shape']
roomTypes == {"simple", "triangle", "t_shape"}

\* largest coordinate of the generated three-corner rooms
MaxCoord == 3

Grid == {<<x, y>> : x \in 0..MaxCoord, y \in 0..MaxCoord}

ring3 == << <<1, 2>>, <<2, 3>>, <<3, 1>> >>
ring4 == << <<1, 2>>, <<2, 3>>, <<3, 4>>, <<4, 1>> >>

\* every three-corner room with its first corner at the origin and the other
\* two on the grid, its three walls joining the corners in order; and the same
\* room with one more wall listed first, which corner 1 starts and no corner
\* ends
GridRooms ==
    {MkRoom(<< <<0, 0>>, p2, p3>>, ring3) : p2 \in Grid, p3 \in Grid}
    \cup
    {MkRoom(<< <<0, 0>>, p2, p3>>, << <<1, 0>> >> \o ring3) : p2 \in Grid, p3 \in Grid}

\* the rectangle 10 x 8, corners in order, four walls in order
RectangleRoom == MkRoom(<< <<0, 0>>, <<10, 0>>, <<10, 8>>, <<0, 8>> >>, ring4)

\* the triangle (0,0), (4,0), (1,3)
TriangleRoom == MkRoom(<< <<0, 0>>, <<4, 0>>, <<1, 3>> >>, ring3)

\* a T shape of eight corners
TShapeRoom ==
    MkRoom(<< <<0, 2>>, <<1, 2>>, <<1, 0>>, <<2, 0>>, <<2, 2>>, <<3, 2>>, <<3, 3>>, <<0, 3>> >>,
           << <<1, 2>>, <<2, 3>>, <<3, 4>>, <<4, 5>>, <<5, 6>>, <<6, 7>>, <<7, 8>>, <<8, 1>> >>)

\* an L shape of six corners
LShapeRoom ==
    MkRoom(<< <<0, 0>>, <<4, 0>>, <<4, 2>>, <<2, 2>>, <<2, 5>>, <<0, 5>> >>,
           << <<1, 2>>, <<2, 3>>, <<3, 4>>, <<4, 5>>, <<5, 6>>, <<6, 1>> >>)

\* a diamond: no wall is aligned with an axis
DiamondRoom == MkRoom(<< <<2, 0>>, <<4, 2>>, <<2, 4>>, <<0, 2>> >>, ring4)

\* a square of which only the bottom wall is given
OneWallRoom == MkRoom(<< <<0, 0>>, <<4, 0>>, <<4, 4>>, <<0, 4>> >>, << <<1, 2>> >>)

\* corners without any wall
NoWallRoom == MkRoom(<< <<0, 0>>, <<1, 1>> >>, <<>>)

\* no corners, without and with walls
EmptyRoom == MkRoom(<<>>, <<>>)
EmptyCornersRoom == MkRoom(<<>>, << <<0, 0>>, <<0, 0>> >>)

\* a square with a wall of length zero (corner 1 starts and ends it), listed
\* first, and listed last
ZeroWallFirstRoom ==
    MkRoom(<< <<0, 0>>, <<2, 0>>, <<2, 2>>, <<0, 2>> >>, << <<1, 1>> >> \o ring4)
ZeroWallLastRoom ==
    MkRoom(<< <<0, 0>>, <<2, 0>>, <<2, 2>>, <<0, 2>> >>, ring4 \o << <<3, 3>> >>)

\* only walls of length zero, between corners at one place and at two places
ZeroWallsOnlyRoom ==
    MkRoom(<< <<1, 1>>, <<1, 1>>, <<3, 1>> >>, << <<1, 2>>, <<3, 3>> >>)

\* five corners, two of them at the same place and joined by a wall
DoubledCornerRoom ==
    MkRoom(<< <<0, 0>>, <<0, 0>>, <<3, 0>>, <<3, 2>>, <<0, 2>> >>,
           << <<1, 2>>, <<2, 3>>, <<3, 4>>, <<4, 5>>, <<5, 1>> >>)

\* the rectangle with walls that no corner starts, ends, or starts and ends
UnresolvedWallsRoom ==
    MkRoom(<< <<0, 0>>, <<10, 0>>, <<10, 8>>, <<0, 8>> >>,
           << <<0, 2>>, <<1, 2>>, <<2, 3>>, <<3, 0>>, <<3, 4>>, <<4, 1>>, <<0, 0>> >>)

\* nine corners; corner 1 starts four horizontal walls of lengths 1 to 4 and
\* four vertical walls of lengths 1, 2, 3 and 5; a fifth vertical wall ends at it
ManyWallsRoom ==
    MkRoom(<< <<0, 0>>, <<1, 0>>, <<2, 0>>, <<3, 0>>, <<4, 0>>, <<0, 1>>, <<0, 2>>, <<0, 3>>, <<0, 5>> >>,
           << <<1, 2>>, <<1, 3>>, <<1, 4>>, <<1, 5>>, <<1, 6>>, <<1, 7>>, <<1, 8>>, <<1, 9>>, <<9, 1>> >>)

\* wall 1 is listed in wallStarts of corner 1 and of corner 3: find returns
\* the first corner that lists it
TwiceStartedRoom ==
    LET r == MkRoom(<< <<0, 0>>, <<3, 0>>, <<3, 3>> >>, ring3)
    IN  [r EXCEPT !.corners[3].wallStarts = @ \cup {1}]

\* five corners and one horizontal wall in the middle, away from the corners
\* that are extreme in any direction
FarWallRoom ==
    MkRoom(<< <<0, 0>>, <<6, 0>>, <<2, 3>>, <<4, 3>>, <<3, 6>> >>, << <<3, 4>> >>)

\* five corners, two of them at the same place: a wall of length zero, a
\* horizontal, two vertical walls and a slanted one
MixedWallsRoom ==
    MkRoom(<< <<0, 0>>, <<0, 0>>, <<3, 0>>, <<3, 2>>, <<0, 3>> >>,
           << <<1, 2>>, <<2, 3>>, <<3, 4>>, <<4, 5>>, <<5, 1>> >>)

CuratedRooms ==
    {FarWallRoom, MixedWallsRoom, RectangleRoom, TriangleRoom, TShapeRoom, LShapeRoom, DiamondRoom, OneWallRoom,
     NoWallRoom, EmptyRoom, EmptyCornersRoom, ZeroWallFirstRoom, ZeroWallLastRoom,
     ZeroWallsOnlyRoom, DoubledCornerRoom, UnresolvedWallsRoom, ManyWallsRoom,
     TwiceStartedRoom}

\* the snapshots one evaluation of roomDimensions is checked on
EngineRooms == CuratedRooms \cup GridRooms

\* the snapshots the loader serves in the running application
LoaderRooms ==
    {RectangleRoom, TriangleRoom, TShapeRoom, DiamondRoom, OneWallRoom, NoWallRoom,
     EmptyRoom, EmptyCornersRoom, ZeroWallFirstRoom, UnresolvedWallsRoom, ManyWallsRoom}

(***************************************************************************)
(* The running application: HomeView with its loader, and the              *)
(* RoomVisualizer it mounts (v-else-if="roomData", after v-if="error").    *)
(***************************************************************************)
\* the computed roomDimensions of a RoomVisualizer given the prop `data`
computedDimensions == [v \in Variants |-> [data \in LoaderRooms |-> roomDimensions(v, data)]]

\* the template renders <RoomVisualizer :roomData="roomData" />
mounted == error = NULL /\ roomData # NoRoom

\* defective drawDimensions: the early return on an empty list is missing
throwsOnAnyIndex(dims, option) == option >= Len(dims)

\* drawDimensions: `if (!roomDimensions.value.length) return`, then
\* roomDimensions.value[currentDimensionOption.value].length is read, which
\* throws a TypeError when the index names no entry
drawDimensionsThrows(dims, option) == Len(dims) > 0 /\ option >= Len(dims)

\* defective advance: no-op on an empty list, but the modulus is missing
advanceNoWrap(option, count) == IF count > 0 THEN option + 1 ELSE option

\* the value changeDimensionOption leaves in currentDimensionOption, count
\* being roomDimensions.value.length
nextDimensionOption(option, count) ==
    IF count > 0 THEN (option + 1) % count ELSE option

engineIdle ==
    /\ pc = "idle"
    /\ UNCHANGED <<variant, pc, dimensions, uniqueDimensions, nanCompared>>

Init ==
    /\ variant \in Variants
    /\ roomData = NoRoom
    /\ error = NULL
    /\ isLoading = FALSE
    /\ currentRoomType = ""
    /\ pending = NULL
    /\ currentDimensionOption = 0
    /\ drawFault = FALSE
    /\ pc = "idle"
    /\ dimensions = <<>>
    /\ uniqueDimensions = <<>>
    /\ result = <<>>
    /\ nanCompared = FALSE
    /\ lastHandler = ""

\* defective catch block: the message is dropped
noMessage(reason) == NULL

\* err instanceof Error ? err.message : 'Failed to load room data', for the
\* three ways the try block throws: fetch rejects, `throw new Error` on
\* !response.ok, response.json() rejects
errorMessage(reason) ==
    IF reason = "status" THEN "Failed to load"
    ELSE IF reason = "json" THEN "Unexpected token"
    ELSE "Failed to fetch"

\* loadRoomData up to its await (the buttons are disabled while isLoading)
loadRoomData(type) ==
    /\ engineIdle
    /\ ~isLoading
    /\ error' = NULL
    /\ isLoading' = TRUE
    /\ pending' = type
    /\ lastHandler' = "loadRoomData"
    /\ UNCHANGED <<roomData, currentRoomType, currentDimensionOption, drawFault, result>>

\* the fetch succeeded, response.ok, and the JSON parsed to `data`: the rest
\* of the try block and the finally block.  A mounted RoomVisualizer gets the
\* new prop, recomputes roomDimensions and its watcher runs drawRoom; a
\* RoomVisualizer mounted by this starts with currentDimensionOption = 0 and
\* onMounted runs drawRoom.
fetchSucceeds(data) ==
    /\ engineIdle
    /\ isLoading
    /\ roomData' = data
    /\ currentRoomType' = pending
    /\ isLoading' = FALSE
    /\ pending' = NULL
    /\ error' = error
    /\ result' = computedDimensions[variant][data]
    /\ currentDimensionOption' = IF mounted THEN currentDimensionOption ELSE 0
    /\ drawFault' = drawDimensionsThrows(result', currentDimensionOption')
    /\ lastHandler' = "fetchSucceeds"

\* fetch rejected, response.ok was false, or response.json() rejected: the
\* catch block and the finally block.  The RoomVisualizer is unmounted.
fetchFails(reason) ==
    /\ engineIdle
    /\ isLoading
    /\ error' = errorMessage(reason)
    /\ roomData' = NoRoom
    /\ isLoading' = FALSE
    /\ pending' = NULL
    /\ result' = <<>>
    /\ currentDimensionOption' = 0
    /\ drawFault' = FALSE
    /\ lastHandler' = "fetchFails"
    /\ UNCHANGED currentRoomType

\* the click handler of the mounted RoomVisualizer; the watcher of
\* currentDimensionOption runs drawRoom when the value changed
changeDimensionOption ==
    /\ engineIdle
    /\ mounted
    /\ currentDimensionOption' = nextDimensionOption(currentDimensionOption, Len(result))
    /\ lastHandler' = "changeDimensionOption"
    /\ drawFault' = IF currentDimensionOption' # currentDimensionOption
                    THEN drawDimensionsThrows(result, currentDimensionOption')
                    ELSE drawFault
    /\ UNCHANGED <<roomData, error, isLoading, currentRoomType, pending, result>>

Next ==
    \/ \E type \in roomTypes : loadRoomData(type)
    \/ \E data \in LoaderRooms : fetchSucceeds(data)
    \/ \E reason \in {"network", "status", "json"} : fetchFails(reason)
    \/ changeDimensionOption

Spec == Init /\ [][Next]_vars

(***************************************************************************)
(* One evaluation of the computed property roomDimensions, statement by    *)
(* statement, for a snapshot drawn from EngineRooms.                       *)
(***************************************************************************)
applicationIdle ==
    UNCHANGED <<variant, roomData, error, isLoading, currentRoomType, pending,
                currentDimensionOption, drawFault, lastHandler>>

EngineInit ==
    /\ variant \in Variants
    /\ roomData \in EngineRooms
    /\ error = NULL
    /\ isLoading = FALSE
    /\ currentRoomType = ""
    /\ pending = NULL
    /\ currentDimensionOption = 0
    /\ drawFault = FALSE
    /\ pc = "start"
    /\ dimensions = <<>>
    /\ uniqueDimensions = <<>>
    /\ result = <<>>
    /\ nanCompared = FALSE
    /\ lastHandler = ""

\* if (!coordinates.value) return []
returnEmpty ==
    /\ applicationIdle
    /\ pc = "start"
    /\ coordinates(roomData) = NoCoordinates
    /\ pc' = "done"
    /\ result' = <<>>
    /\ UNCHANGED <<dimensions, uniqueDimensions, nanCompared>>

\* the candidate sources push into `dimensions`
generateStep ==
    /\ applicationIdle
    /\ pc = "start"
    /\ coordinates(roomData) # NoCoordinates
    /\ pc' = "generated"
    /\ dimensions' = generate(variant, roomData)
    /\ UNCHANGED <<uniqueDimensions, result, nanCompared>>

\* dimensions.sort(...)
sortStep ==
    /\ applicationIdle
    /\ pc = "generated"
    /\ pc' = "sorted"
    /\ dimensions' = sort("dimensions", dimensions)
    /\ UNCHANGED <<uniqueDimensions, result, nanCompared>>

\* the loop that fills uniqueDimensions
dedupStep ==
    /\ applicationIdle
    /\ pc = "sorted"
    /\ pc' = "unique"
    /\ uniqueDimensions' = dedup(variant, dimensions)
    /\ UNCHANGED <<dimensions, result, nanCompared>>

\* simple variant: return uniqueDimensions
returnUnique ==
    /\ applicationIdle
    /\ pc = "unique"
    /\ variant = "simple"
    /\ pc' = "done"
    /\ result' = uniqueDimensions
    /\ UNCHANGED <<dimensions, uniqueDimensions, nanCompared>>

\* precision variant: return uniqueDimensions.filter(...)
filterStep ==
    /\ applicationIdle
    /\ pc = "unique"
    /\ variant = "precision"
    /\ pc' = "done"
    /\ result' = filterDimensions(roomData, uniqueDimensions)
    /\ nanCompared' = \E k \in 1..Len(uniqueDimensions) :
                          filterComparesNaN(roomData, uniqueDimensions[k])
    /\ UNCHANGED <<dimensions, uniqueDimensions>>

EngineNext ==
    \/ returnEmpty
    \/ generateStep
    \/ sortStep
    \/ dedupStep
    \/ returnUnique
    \/ filterStep

EngineSpec == EngineInit /\ [][EngineNext]_vars

(***************************************************************************)
(* Properties of one evaluation of roomDimensions (EngineSpec).            *)
(***************************************************************************)
\* a precedes-or-equals b in the ranking: longer first, wider first on a tie
rankedBefore(a, b) ==
    \/ valueDiff(a.length.value, b.length.value) = 1
    \/ /\ valueDiff(a.length.value, b.length.value) = 0
       /\ valueDiff(a.width.value, b.width.value) \in {0, 1}

\* C1: for every RoomData and both variants, every adjacent pair (a, b) of the
\* list roomDimensions returns has a.length.value > b.length.value, or equal
\* lengths and a.width.value >= b.width.value; the deduplication and the
\* filter that run after the sort keep that order.
C1_RankingInvariant ==
    /\ pc \in {"sorted", "unique"} =>
          \A k \in 1..(Len(dimensions) - 1) :
              \/ rankedBefore(dimensions[k], dimensions[k + 1])
              \/ dimensions[k].width.value = NaNValue
              \/ dimensions[k + 1].width.value = NaNValue
    /\ pc = "unique" =>
          \A k \in 1..(Len(uniqueDimensions) - 1) :
              \/ rankedBefore(uniqueDimensions[k], uniqueDimensions[k + 1])
              \/ uniqueDimensions[k].width.value = NaNValue
              \/ uniqueDimensions[k + 1].width.value = NaNValue
    /\ pc = "done" =>
          \A k \in 1..(Len(result) - 1) : rankedBefore(result[k], result[k + 1])

\* C1 happens: a returned list of three or more entries with a tie on the
\* length decided by the width, after both the deduplication and the filter
\* removed entries
C1_witness ==
    /\ pc = "done"
    /\ variant = "precision"
    /\ Len(result) >= 3
    /\ Len(result) < Len(uniqueDimensions)
    /\ Len(uniqueDimensions) < Len(dimensions)
    /\ \E k \in 1..(Len(result) - 1) :
          /\ valueDiff(result[k].length.value, result[k + 1].length.value) = 0
          /\ valueDiff(result[k].width.value, result[k + 1].width.value) = 1

\* the two Dimensions are the same segment, in the same direction
sameSegment(d, e) ==
    /\ d.nan = e.nan
    /\ d.x1 * e.den = e.x1 * d.den
    /\ d.y1 * e.den = e.y1 * d.den
    /\ ~d.nan => /\ d.x2 * e.den = e.x2 * d.den
                 /\ d.y2 * e.den = e.y2 * d.den

\* the two Dimensions are the same segment, (x1,y1) and (x2,y2) swapped
reversedSegment(d, e) ==
    /\ ~d.nan /\ ~e.nan
    /\ d.x1 * e.den = e.x2 * d.den
    /\ d.y1 * e.den = e.y2 * d.den
    /\ d.x2 * e.den = e.x1 * d.den
    /\ d.y2 * e.den = e.y1 * d.den

sameUpToDirection(a, b) ==
    /\ sameSegment(a.length, b.length) \/ reversedSegment(a.length, b.length)
    /\ sameSegment(a.width, b.width) \/ reversedSegment(a.width, b.width)

differOnlyInDirection(a, b) ==
    /\ sameUpToDirection(a, b)
    /\ ~(sameSegment(a.length, b.length) /\ sameSegment(a.width, b.width))

\* the entries of the returned list that stand for candidate a
entriesFor(a) == {k \in 1..Len(result) : sameUpToDirection(result[k], a)}

\* the pairs of generated candidates that differ only in direction
reversedPairs ==
    {p \in (1..Len(dimensions)) \X (1..Len(dimensions)) :
        p[1] < p[2] /\ differOnlyInDirection(dimensions[p[1]], dimensions[p[2]])}

keysDistinct ==
    \A i, j \in 1..Len(result) :
        i # j => keyOf(variant, result[i]) # keyOf(variant, result[j])

\* C2 as stated: two generated candidates that differ only in the direction
\* of their length and/or width segment have exactly one entry in the list
\* roomDimensions returns; no two returned entries have the same key.
C2_ExactlyOneEntry ==
    pc = "done" =>
        /\ \A p \in reversedPairs : Cardinality(entriesFor(dimensions[p[1]])) = 1
        /\ keysDistinct

\* C2: two generated candidates that differ only in the direction of their
\* length and/or width segment have at most one entry in the list
\* roomDimensions returns: exactly one in the simple variant, and in the
\* precision variant exactly one when the normalised candidate passes the
\* filter and none when it does not; no two returned entries have the same key.
C2_AtMostOneEntry ==
    pc = "done" =>
        /\ \A p \in reversedPairs :
              LET a == dimensions[p[1]]
                  norm == [length |-> normalizeDimension(a.length),
                           width |-> normalizeDimension(a.width)]
                  n == Cardinality(entriesFor(a))
              IN  IF variant = "simple" \/ filterKeeps(roomData, norm)
                  THEN n = 1 ELSE n = 0
        /\ keysDistinct

\* C2 happens: the precision variant returns one entry for two candidates
\* that differ only in direction, and other entries besides
C2_witness ==
    /\ pc = "done"
    /\ variant = "precision"
    /\ Len(result) >= 2
    /\ \E p \in reversedPairs : Cardinality(entriesFor(dimensions[p[1]])) = 1

\* the squared distance between (x/den, y/den) and corner c is at most
\* (1/NearTolDen)^2
withinTolerance(x, y, den, c) ==
    NearTolDen * NearTolDen *
        ((x - c.x * den) * (x - c.x * den) + (y - c.y * den) * (y - c.y * den))
    <= den * den

\* some point of the segment from corner a to corner b is within the
\* tolerance of (x/den, y/den): an end of the segment is, or the foot of the
\* perpendicular lies on the segment and is
nearSegment(x, y, den, a, b) ==
    LET ex == b.x - a.x
        ey == b.y - a.y
        L2 == ex * ex + ey * ey
        dot == (x - a.x * den) * ex + (y - a.y * den) * ey
        cross == (x - a.x * den) * ey - (y - a.y * den) * ex
    IN  \/ withinTolerance(x, y, den, a)
        \/ withinTolerance(x, y, den, b)
        \/ /\ 0 <= dot /\ dot <= den * L2
           /\ NearTolDen * NearTolDen * cross * cross <= den * den * L2

\* the walls of rd that have a start corner and an end corner
wallsWithCorners(rd) ==
    {k \in 1..Len(rd.walls) :
        /\ \E i \in 1..Len(rd.corners) : rd.walls[k].id \in rd.corners[i].wallStarts
        /\ \E i \in 1..Len(rd.corners) : rd.walls[k].id \in rd.corners[i].wallEnds}

nearSomeWall(rd, x, y, den) ==
    \E k \in wallsWithCorners(rd) :
        nearSegment(x, y, den, startCornerOf(rd, rd.walls[k]), endCornerOf(rd, rd.walls[k]))

\* the angle of the Dimension and the angle of some wall differ, modulo pi,
\* by less than the tolerance
parallelToSomeWall(rd, dim) ==
    /\ ~dim.nan
    /\ \E k \in wallsWithCorners(rd) :
          LET a == startCornerOf(rd, rd.walls[k])
              b == endCornerOf(rd, rd.walls[k])
              u == atan2(dim.y2 - dim.y1, dim.x2 - dim.x1)
              w == atan2(b.y - a.y, b.x - a.x)
          IN  Abs(u[1] * w[2] - u[2] * w[1]) * ParallelTolDen
                  <= Abs(u[1] * w[1] + u[2] * w[2])

allEndpointsNear(rd, e) ==
    /\ ~e.length.nan /\ ~e.width.nan
    /\ nearSomeWall(rd, e.length.x1, e.length.y1, e.length.den)
    /\ nearSomeWall(rd, e.length.x2, e.length.y2, e.length.den)
    /\ nearSomeWall(rd, e.width.x1, e.width.y1, e.width.den)
    /\ nearSomeWall(rd, e.width.x2, e.width.y2, e.width.den)

allEndpointsFar(rd, e) ==
    /\ ~e.length.nan /\ ~e.width.nan
    /\ ~nearSomeWall(rd, e.length.x1, e.length.y1, e.length.den)
    /\ ~nearSomeWall(rd, e.length.x2, e.length.y2, e.length.den)
    /\ ~nearSomeWall(rd, e.width.x1, e.width.y1, e.width.den)
    /\ ~nearSomeWall(rd, e.width.x2, e.width.y2, e.width.den)

\* C3: in the precision variant every entry of the list roomDimensions
\* returns has its length or its width segment parallel (modulo pi, within
\* 0.01) to some resolved wall, and each of its four endpoints within 0.5 of
\* some resolved wall segment; a candidate whose endpoints are all farther
\* than 0.5 from every wall is not returned.
C3_FilterExclusion ==
    (pc = "done" /\ variant = "precision") =>
        /\ \A k \in 1..Len(result) :
              /\ parallelToSomeWall(roomData, result[k].length)
                    \/ parallelToSomeWall(roomData, result[k].width)
              /\ allEndpointsNear(roomData, result[k])
        /\ \A k \in 1..Len(uniqueDimensions) :
              allEndpointsFar(roomData, uniqueDimensions[k]) =>
                  \A j \in 1..Len(result) : result[j] # uniqueDimensions[k]

\* C3 happens: the filter ran on a room with a resolved wall and dropped a
\* candidate that is parallel to the wall and has all its endpoints far from
\* every wall
C3_witness ==
    /\ pc = "done"
    /\ variant = "precision"
    /\ wallsWithCorners(roomData) # {}
    /\ \E k \in 1..Len(uniqueDimensions) :
          /\ parallelToSomeWall(roomData, uniqueDimensions[k].length)
          /\ allEndpointsFar(roomData, uniqueDimensions[k])

\* the filter kept some candidates and dropped others
C3_mixed ==
    /\ pc = "done"
    /\ variant = "precision"
    /\ result # <<>>
    /\ Len(result) < Len(uniqueDimensions)

\* C4 as stated: for the rectangle (0,0), (10,0), (10,8), (0,8) with four
\* walls in order, the first entry of the list roomDimensions returns has
\* length.value = 10 and width.value = 8 (values are kept as squares).
C4_RectanglePrimary ==
    (pc = "done" /\ roomData = RectangleRoom) =>
        /\ result # <<>>
        /\ valueDiff(result[1].length.value, hypot(10, 0)) = 0
        /\ valueDiff(result[1].width.value, hypot(0, 8)) = 0

\* the triangle candidate is the last one pushed by the precision variant
lastGenerated == dimensions[Len(dimensions)]

\* C5 as stated: for the triangle (0,0), (4,0), (1,3) the triangle handler
\* takes (0,0)-(4,0) as the longest side, of length 4, and pushes a width of
\* value 3 (values are kept as squares).
C5_TriangleBaseFour ==
    (pc = "generated" /\ variant = "precision" /\ roomData = TriangleRoom) =>
        /\ <<lastGenerated.length.x1, lastGenerated.length.y1>> = <<0, 0>>
        /\ <<lastGenerated.length.x2, lastGenerated.length.y2>> = <<4, 0>>
        /\ valueDiff(lastGenerated.length.value, hypot(4, 0)) = 0
        /\ valueDiff(lastGenerated.width.value, hypot(0, 3)) = 0

\* C5: for the triangle (0,0), (4,0), (1,3) the triangle handler takes
\* (4,0)-(1,3) as the longest side, of length sqrt(18), and pushes a width of
\* value sqrt(8), the height of (0,0) over that side, drawn from the midpoint
\* (2.5, 1.5) of the side to (0.5, -0.5).
C5_TriangleLongestSide ==
    (pc = "generated" /\ variant = "precision" /\ roomData = TriangleRoom) =>
        /\ Len(dimensions) = Len(angles) + 1
        /\ <<lastGenerated.length.x1, lastGenerated.length.y1>> = <<4, 0>>
        /\ <<lastGenerated.length.x2, lastGenerated.length.y2>> = <<1, 3>>
        /\ valueDiff(lastGenerated.length.value, [n |-> 18, d |-> 1]) = 0
        /\ valueDiff(lastGenerated.width.value, [n |-> 8, d |-> 1]) = 0
        /\ sameSegment(lastGenerated.width,
                       [x1 |-> 5, y1 |-> 3, x2 |-> 1, y2 |-> -1, den |-> 2, nan |-> FALSE])

\* C5 happens: the precision variant generated the candidates of the triangle
C5_witness ==
    /\ pc = "generated"
    /\ variant = "precision"
    /\ roomData = TriangleRoom
    /\ Len(dimensions) > Len(angles)

(***************************************************************************)
(* Properties of the running application (Spec).                           *)
(***************************************************************************)
\* a RoomVisualizer is mounted on a RoomData without corners
emptyCornersMounted == mounted /\ Len(roomData.corners) = 0

\* C6: when RoomData.corners is empty, whatever walls contains,
\* roomDimensions returns the empty list in both variants, nothing throws,
\* and changeDimensionOption leaves currentDimensionOption as it was.
C6_EmptyInput ==
    [][ (mounted' /\ Len(roomData'.corners) = 0) =>
            /\ result' = <<>>
            /\ roomDimensions(variant', roomData') = <<>>
            /\ ~drawFault'
            /\ (emptyCornersMounted /\ lastHandler' = "changeDimensionOption") =>
                   currentDimensionOption' = currentDimensionOption ]_vars

\* C6 happens: changeDimensionOption ran on a RoomData that has walls and no
\* corners, with a cursor left over from an earlier RoomData
C6_witness ==
    /\ emptyCornersMounted
    /\ Len(roomData.walls) > 0
    /\ lastHandler = "changeDimensionOption"
    /\ currentDimensionOption > 0

\* currentDimensionOption after n runs of changeDimensionOption on a list of
\* count entries
RECURSIVE advanceTimes(_, _, _)
advanceTimes(n, option, count) ==
    IF n = 0 THEN option
    ELSE advanceTimes(n - 1, nextDimensionOption(option, count), count)

\* C7 as stated: in every reachable state of the component in which the list
\* has count > 0 entries, count runs of changeDimensionOption with RoomData
\* unchanged bring currentDimensionOption back to the value it has.
C7_Wraparound ==
    (mounted /\ Len(result) > 0) =>
        advanceTimes(Len(result), currentDimensionOption, Len(result))
            = currentDimensionOption

\* C8: currentDimensionOption is 0 when a RoomVisualizer is created; each
\* changeDimensionOption sets it to (currentDimensionOption + 1) mod count when
\* the list has count > 0 entries and leaves it unchanged when count = 0; no
\* other handler (a RoomData replacement with its recomputation and redraw)
\* changes it while the RoomVisualizer lives.
C8_CursorAdvance ==
    [][ /\ (~mounted /\ mounted') => currentDimensionOption' = 0
        /\ (mounted /\ mounted' /\ lastHandler' = "changeDimensionOption") =>
              /\ Len(result) > 0 =>
                    currentDimensionOption' = (currentDimensionOption + 1) % Len(result)
              /\ Len(result) = 0 => currentDimensionOption' = currentDimensionOption
        /\ (mounted /\ mounted' /\ lastHandler' # "changeDimensionOption") =>
              currentDimensionOption' = currentDimensionOption ]_vars

\* C8 happens: changeDimensionOption wrapped the cursor from the last entry
\* to the first
C8_witness ==
    /\ mounted
    /\ lastHandler = "changeDimensionOption"
    /\ Len(result) >= 2
    /\ currentDimensionOption = 0

\* a RoomData replacement left a cursor other than 0 in place
C8_replaced ==
    /\ mounted
    /\ lastHandler = "fetchSucceeds"
    /\ currentDimensionOption > 0

(***************************************************************************)
(* Properties of one evaluation of roomDimensions (EngineSpec), continued. *)
(***************************************************************************)
\* some wall of rd has both corners, at the same position
hasZeroLengthWall(rd) ==
    \E k \in wallsWithCorners(rd) :
        LET a == startCornerOf(rd, rd.walls[k])
            b == endCornerOf(rd, rd.walls[k])
        IN  a.x = b.x /\ a.y = b.y

\* C9 as stated: when a resolved wall has its start corner and its end corner
\* at the same position, isPointNearWall does not divide by zero and no NaN
\* reaches its comparison of the distance with the tolerance.
C9_ZeroLengthGuard ==
    (pc = "done" /\ variant = "precision" /\ hasZeroLengthWall(roomData)) =>
        ~nanCompared

\* rd without the k-th entry of walls (the corners are left as they are)
withoutWall(rd, k) ==
    [rd EXCEPT !.walls = SelectSeq(rd.walls, LAMBDA w : w.id # rd.walls[k].id)]

unresolvedWalls(rd) == (1..Len(rd.walls)) \ wallsWithCorners(rd)

\* C10: a wall that no corner starts or that no corner ends contributes no
\* candidate and is no reference wall of the filter: roomDimensions returns
\* what it returns for the same RoomData without that wall, and nothing
\* throws (the evaluation reaches its return).
C10_UnresolvedWall ==
    /\ pc = "generated" =>
          \A k \in unresolvedWalls(roomData) :
              dimensions = generate(variant, withoutWall(roomData, k))
    /\ pc = "done" =>
          \A k \in unresolvedWalls(roomData) :
              result = roomDimensions(variant, withoutWall(roomData, k))

\* C10 happens: an evaluation returned entries for a RoomData with a wall
\* that a corner starts and no corner ends
C10_witness ==
    /\ pc = "done"
    /\ result # <<>>
    /\ \E k \in unresolvedWalls(roomData) :
          \E i \in 1..Len(roomData.corners) :
              roomData.walls[k].id \in roomData.corners[i].wallStarts

C12_LoaderOutcome ==
    [][ /\ lastHandler' \in {"fetchSucceeds", "fetchFails"} =>
              /\ isLoading /\ ~isLoading'
              /\ pending \in roomTypes
        /\ lastHandler' = "fetchFails" =>
              /\ error' # NULL
              /\ roomData' = NoRoom
              /\ ~mounted'
        /\ lastHandler' = "fetchSucceeds" =>
              /\ error' = NULL
              /\ roomData' \in LoaderRooms
              /\ currentRoomType' = pending
              /\ mounted' ]_vars

\* C12 happens: a load failed after an earlier load of a triangle had
\* succeeded
C12_witness ==
    /\ lastHandler = "fetchFails"
    /\ error # NULL
    /\ roomData = NoRoom
    /\ ~isLoading
    /\ currentRoomType = "triangle"

\* a load succeeded after a failed one: the error is cleared
C12_recovered ==
    /\ lastHandler = "fetchSucceeds"
    /\ currentRoomType = "t_shape"
    /\ mounted
    /\ ~isLoading

(***************************************************************************)
(* Properties of one evaluation of roomDimensions (EngineSpec): the        *)
(* candidate sources of the precision variant.                             *)
(***************************************************************************)
\* the segment of the k-th wall, from its start corner to its end corner
wallSegment(rd, k) ==
    cornerDimension(startCornerOf(rd, rd.walls[k]), endCornerOf(rd, rd.walls[k]))

\* the walls with both corners whose dy is below 0.01
horizontalIds(rd) ==
    {k \in wallsWithCorners(rd) :
        Abs(wallSegment(rd, k).y2 - wallSegment(rd, k).y1) * AlignEpsDen < 1}

\* the walls with both corners whose dx is below 0.01 and whose dy is not
verticalIds(rd) ==
    {k \in wallsWithCorners(rd) \ horizontalIds(rd) :
        Abs(wallSegment(rd, k).x2 - wallSegment(rd, k).x1) * AlignEpsDen < 1}

idsOf(ws) == {ws[k].id : k \in 1..Len(ws)}

generatedPrecision == pc = "generated" /\ variant = "precision"

\* non-increasing lengths
longestFirst(ws) ==
    \A i, j \in 1..Len(ws) : i < j => valueDiff(ws[i].length, ws[j].length) \in {0, 1}

\* C13: with H horizontal and V vertical aligned walls the aligned-wall
\* source of the precision variant pushes exactly min(3,H) * min(3,V)
\* candidates, at most 9, one for each index pair (i, j) of the top three of
\* each list sorted by descending length, the pair (longest horizontal,
\* longest vertical) once and first; none when H = 0 or V = 0.
C13_AlignedCandidateCount ==
    generatedPrecision =>
        LET ac == alignedCandidates(roomData)
            hs == horizontalWalls(roomData)
            vs == verticalWalls(roomData)
            H == Cardinality(horizontalIds(roomData))
            V == Cardinality(verticalIds(roomData))
            I == 1..Min2(3, H)
            J == 1..Min2(3, V)
        IN  /\ Len(hs) = H /\ Len(vs) = V
            /\ longestFirst(hs) /\ longestFirst(vs)
            /\ Len(ac) = Min2(3, H) * Min2(3, V)
            /\ Len(ac) <= 9
            /\ (H = 0 \/ V = 0) => ac = <<>>
            /\ SubSeq(dimensions, 1, Len(ac)) = ac
            /\ (H > 0 /\ V > 0) => ac[1] = wallCandidate(hs[1], vs[1])
            /\ \A k \in 1..Len(ac) :
                  Cardinality({j \in 1..Len(ac) : ac[j] = ac[k]})
                      = Cardinality({p \in I \X J : wallCandidate(hs[p[1]], vs[p[2]]) = ac[k]})
            /\ \A p \in I \X J : \E k \in 1..Len(ac) : ac[k] = wallCandidate(hs[p[1]], vs[p[2]])

\* C13 happens: more than three horizontal and more than three vertical
\* aligned walls, nine candidates
C13_witness ==
    /\ generatedPrecision
    /\ Cardinality(horizontalIds(roomData)) > 3
    /\ Cardinality(verticalIds(roomData)) > 3
    /\ Len(alignedCandidates(roomData)) = 9

\* one horizontal and two vertical aligned walls: two candidates
C13_small ==
    /\ generatedPrecision
    /\ Cardinality(horizontalIds(roomData)) = 1
    /\ Cardinality(verticalIds(roomData)) = 2
    /\ Len(alignedCandidates(roomData)) = 2

sameOrReversed(d, e) == sameSegment(d, e) \/ reversedSegment(d, e)

\* C14: in the precision variant the four fixed-angle candidates are
\* generated exactly when the aligned-wall source pushed nothing or the room
\* has at most 4 corners; so for a room of more than 4 corners with a
\* horizontal and a vertical aligned wall, every returned entry has a
\* horizontal aligned wall as its length and a vertical one as its width.
C14_FallbackTrigger ==
    /\ generatedPrecision =>
          LET ac == alignedCandidates(roomData)
              rest == SubSeq(dimensions, Len(ac) + 1, Len(dimensions))
          IN  IF Len(ac) = 0 \/ Len(roomData.corners) <= 4
              THEN /\ Len(rest) >= Len(angles)
                   /\ SubSeq(rest, 1, Len(angles)) = fixedAngleCandidates(roomData)
              ELSE rest = <<>>
    /\ (pc = "done" /\ variant = "precision" /\ Len(roomData.corners) > 4
           /\ horizontalIds(roomData) # {} /\ verticalIds(roomData) # {}) =>
          \A k \in 1..Len(result) :
              /\ \E h \in horizontalIds(roomData) :
                    sameOrReversed(result[k].length, wallSegment(roomData, h))
              /\ \E v \in verticalIds(roomData) :
                    sameOrReversed(result[k].width, wallSegment(roomData, v))

\* C14 happens: a room of more than 4 corners with aligned walls of both
\* kinds returned entries
C14_witness ==
    /\ pc = "done"
    /\ variant = "precision"
    /\ Len(roomData.corners) > 4
    /\ horizontalIds(roomData) # {}
    /\ verticalIds(roomData) # {}
    /\ Len(result) >= 2

\* a room of more than 4 corners without aligned candidates falls back to
\* the fixed angles
C14_fallback ==
    /\ generatedPrecision
    /\ Len(roomData.corners) > 4
    /\ alignedCandidates(roomData) = <<>>
    /\ Len(dimensions) = Len(angles)

\* C15: findAlignedWalls returns exactly the resolved walls with dx < 0.01
\* or dy < 0.01; a returned wall is horizontal iff dy < 0.01 and vertical
\* otherwise, so a wall with dx < 0.01 and dy < 0.01 is horizontal and no
\* wall is in both lists.
C15_AlignedClassification ==
    generatedPrecision =>
        LET aw == findAlignedWalls(roomData)
        IN  /\ idsOf(aw) = horizontalIds(roomData) \cup verticalIds(roomData)
            /\ Len(aw) = Cardinality(idsOf(aw))
            /\ \A k \in 1..Len(aw) : aw[k].isHorizontal <=> aw[k].id \in horizontalIds(roomData)
            /\ idsOf(horizontalWalls(roomData)) = horizontalIds(roomData)
            /\ idsOf(verticalWalls(roomData)) = verticalIds(roomData)
            /\ idsOf(horizontalWalls(roomData)) \cap idsOf(verticalWalls(roomData)) = {}
            /\ \A k \in wallsWithCorners(roomData) :
                  (wallSegment(roomData, k).value = hypot(0, 0)) =>
                      k \in idsOf(horizontalWalls(roomData))

\* C15 happens: a wall of length zero among the horizontal walls, next to
\* vertical walls and to a wall that is not aligned
C15_witness ==
    /\ generatedPrecision
    /\ \E k \in horizontalIds(roomData) : wallSegment(roomData, k).value = hypot(0, 0)
    /\ verticalIds(roomData) # {}
    /\ wallsWithCorners(roomData) \ (horizontalIds(roomData) \cup verticalIds(roomData)) # {}

(***************************************************************************)
(* Properties of one evaluation of roomDimensions (EngineSpec):            *)
(* normalisation.                                                          *)
(***************************************************************************)
\* (x1, y1) <= (x2, y2) lexicographically; no comparison with NaN holds
lexOrdered(d) ==
    /\ ~d.nan
    /\ d.x1 < d.x2 \/ (d.x1 = d.x2 /\ d.y1 <= d.y2)

\* d with (x1, y1) and (x2, y2) exchanged (d without NaN)
swapEndpoints(d) ==
    [d EXCEPT !.x1 = d.x2, !.y1 = d.y2, !.x2 = d.x1, !.y2 = d.y1]

\* the Dimensions the dedup loop passes to normalizeDimension
normalizedInputs ==
    {dimensions[k].length : k \in 1..Len(dimensions)} \cup
    {dimensions[k].width : k \in 1..Len(dimensions)}

\* C16 as stated: for every Dimension d that reaches it, normalizeDimension(d)
\* has (x1, y1) lexicographically <= (x2, y2), the same unordered pair of
\* endpoints and the same value as d; d and d with its endpoints swapped
\* normalise to the same Dimension (stated here for d without NaN, the
\* swapped NaN Dimension not being generated); normalizeDimension is
\* idempotent; every returned length and width is in normalised form.
C16_Normalization ==
    /\ pc = "sorted" =>
          \A d \in normalizedInputs :
              LET n == normalizeDimension(d)
              IN  /\ lexOrdered(n)
                  /\ sameOrReversed(n, d)
                  /\ n.value = d.value
                  /\ ~d.nan => normalizeDimension(swapEndpoints(d)) = n
                  /\ normalizeDimension(n) = n
    /\ pc = "done" =>
          \A k \in 1..Len(result) :
              lexOrdered(result[k].length) /\ lexOrdered(result[k].width)

(***************************************************************************)
(* Properties of the running application (Spec): the cursor as an index.   *)
(***************************************************************************)
\* C17 as stated: after any sequence of RoomData replacements on the mounted
\* RoomVisualizer and of advances, whenever the list is not empty
\* 0 <= currentDimensionOption < roomDimensions.length, so that
\* roomDimensions[currentDimensionOption] read by drawDimensions is an entry
\* of the list and the draw does not throw.
C17_CursorValidity ==
    (mounted /\ Len(result) > 0) =>
        /\ 0 <= currentDimensionOption
        /\ currentDimensionOption < Len(result)
        /\ ~drawFault

(***************************************************************************)
(* Properties of one evaluation of roomDimensions (EngineSpec): the        *)
(* triangle special case.                                                  *)
(***************************************************************************)
\* bx * (y - y0) - by * (x - x0) for the baseline from (x0, y0) with
\* direction (bx, by) and the point (x/den, y/den), times den: its sign
\* tells the side of the baseline, its size the distance from it
sideOf(base, x, y, den) ==
    (base.x2 - base.x1) * (y - base.y1 * den) - (base.y2 - base.y1) * (x - base.x1 * den)

\* three corners at three places, not on one line
properTriangle(rd) ==
    /\ Len(rd.corners) = 3
    /\ sideOf(cornerDimension(rd.corners[1], rd.corners[2]),
              rd.corners[3].x, rd.corners[3].y, 1) # 0

\* the corner that is no end of the baseline
apexOf(rd, base) ==
    rd.corners[CHOOSE i \in 1..3 :
        /\ <<rd.corners[i].x, rd.corners[i].y>> # <<base.x1, base.y1>>
        /\ <<rd.corners[i].x, rd.corners[i].y>> # <<base.x2, base.y2>>]

\* C18 as stated: for every room of three distinct corners that are not on
\* one line, the width pushed by the triangle handler starts at the midpoint
\* of the longest side and ends on the same side of that side as the third
\* corner, on the line through the third corner parallel to it.
C18_TriangleWidthDirection ==
    (generatedPrecision /\ properTriangle(roomData)) =>
        LET base == lastGenerated.length
            w == lastGenerated.width
            apex == apexOf(roomData, base)
        IN  /\ ~w.nan
            /\ 2 * w.x1 = (base.x1 + base.x2) * w.den
            /\ 2 * w.y1 = (base.y1 + base.y2) * w.den
            /\ (w.x2 - w.x1) * (base.x2 - base.x1) + (w.y2 - w.y1) * (base.y2 - base.y1) = 0
            /\ sideOf(base, w.x2, w.y2, w.den) = sideOf(base, apex.x, apex.y, 1) * w.den

\* the width ends on the line through the third corner or on its mirror
\* image in the baseline
C18_eitherSide ==
    (generatedPrecision /\ properTriangle(roomData)) =>
        LET base == lastGenerated.length
            w == lastGenerated.width
            apex == apexOf(roomData, base)
        IN  Abs(sideOf(base, w.x2, w.y2, w.den)) = Abs(sideOf(base, apex.x, apex.y, 1)) * w.den

====
